---- MODULE Spec2Model ----
(***************************************************************************)
(* A model of nh-language-server: the Project store (project.rs), the      *)
(* validator orchestration (validation.rs), the ship-log cross-reference   *)
(* validator (ship_log.rs), the file-path validator (file_paths.rs) and    *)
(* the event loop of main.rs.                                              *)
(*                                                                         *)
(* Conventions.  A Url and the path it was built from are one token.  An   *)
(* Option<T> is a sequence of length 0 (None) or 1 (Some).  The text of a  *)
(* file is modelled by what the black-box parsers make of it: a JSON text  *)
(* by the fields serde reads from it, an XML text by its element tree.     *)
(* A Vec is a sequence, a HashMap a function of finite domain.             *)
(***************************************************************************)
EXTENDS Integers, Sequences, FiniteSets, TLC

VARIABLES
    disk,      \* the file system: path -> text, or a read error
    project,   \* project.rs: struct Project
    pc,        \* position of main_loop: "init", "loaded", "loop"; of a validator run: "input", "validated", "revalidated"
    ev,        \* the message the loop handled last
    ran,       \* the validators whose validate ran in the last validation run
    errs,      \* the ErrorSet collected by the last validation run, as a bag
    out,       \* the PublishDiagnostics notifications sent by the last handler
    shown,     \* the editor's view: uri -> what the last notification for it carried
    resp,      \* the response sent by the last request handler
    ctx,       \* the ShipLogContext built last
    prev       \* the ErrorSet of the ship-log validation before the last one

vars == <<disk, project, pc, ev, ran, errs, out, shown, resp, ctx, prev>>

----------------------------------------------------------------------------
(* Bounds of the model. *)

\* The largest document version the editor sends.
MaxVersion == 2

\* The entries of a generated ship log are at most this many.
MaxEntries == 2

----------------------------------------------------------------------------
(* Option, sequences, maps. *)

None == <<>>

Some(x) == <<x>>

Range(s) == {s[i] : i \in DOMAIN s}

RECURSIVE SeqFilter(_, _)
SeqFilter(s, keep) == IF s = <<>> THEN <<>> ELSE IF Head(s) \in keep THEN <<Head(s)>> \o SeqFilter(Tail(s), keep) ELSE SeqFilter(Tail(s), keep)

RECURSIVE Flatten(_)
Flatten(ss) == IF ss = <<>> THEN <<>> ELSE Head(ss) \o Flatten(Tail(ss))

\* The number of occurrences of each element of a sequence.
BagOf(s) == [x \in Range(s) |-> Cardinality({i \in DOMAIN s : s[i] = x})]

EmptyBag == BagOf(<<>>)

EmptyMap == [x \in {} |-> 0]

\* HashMap::insert: the value of an existing key is replaced.
MapInsert(m, k, v) == [x \in (DOMAIN m) \cup {k} |-> IF x = k THEN v ELSE m[x]]

\* All orders of the elements at the positions I of s.
RECURSIVE Orders(_, _)
Orders(s, I) == IF I = {} THEN {<<>>} ELSE UNION {{<<s[i]>> \o t : t \in Orders(s, I \ {i})} : i \in I}

----------------------------------------------------------------------------
(* Strings.  TLC has no order on strings: Strings lists the strings of the *)
(* model in ascending (byte-wise) order, which is the order of String and  *)
(* of Url in the code.                                                     *)

Strings == <<"", "AO1", "AO2", "AO3", "CUR", "D1.xml", "E1", "E2", "E3", "F1", "F2", "GABAGOOL", "N1", "N2", "N3", "None", "P1.json", "P2.json", "P3.json", "S1.json", "S2.json", "TH_VILLAGE", "TH_VILLAGE_X1", "U0.xml", "X1.xml", "X2.xml", "nope.png", "t1.xml">>

RankOf == [s \in Range(Strings) |-> CHOOSE i \in DOMAIN Strings : Strings[i] = s]

Rank(s) == RankOf[s]

----------------------------------------------------------------------------
(* File texts.  serde_json and roxmltree are black boxes: a text is the    *)
(* value its parser returns.                                               *)

\* An XML element: tag name, first text child ("" if none), the 1-based
\* TextPos of the start and of the end of its range, its element children.
Elem(tag, text, at, kids) == [tag |-> tag, text |-> text, at |-> at, kids |-> kids]

\* A childless element on one row.
Leaf(tag, text, row, col) == Elem(tag, text, <<row, col, row, col + 8>>, <<>>)

\* An XML text with a root element.
Xml(root) == [kind |-> "xml", root |-> root]

\* A text that neither parser accepts.
Garbage == [kind |-> "garbage"]

\* A JSON text, by the members the code reads: /name, /starSystem,
\* /ShipLog/xmlFile, /Props/dialogue[]/xmlFile, /Props/translatorText[]/xmlFile,
\* /Props/remotes[]["whiteboard/nomaiText/xmlFile"], /curiosities[]/id,
\* /entryPositions, and the string values at the schema's x-file-path places.
Json(name, starSystem, xmlFile, dialogue, translatorText, filePaths, curiosities, entryPositions) == [kind |-> "json", name |-> name, starSystem |-> starSystem, xmlFile |-> xmlFile, dialogue |-> dialogue, translatorText |-> translatorText, remotes |-> <<>>, filePaths |-> filePaths, curiosities |-> curiosities, entryPositions |-> entryPositions]

\* A planet config of system 'sys' with a ship log at 'xml' and one schema file path 'fp'.
PlanetJson(sys, xml, fp) == Json(Some("planet"), sys, xml, <<>>, <<>>, <<[path |-> fp, range |-> <<4, 16, 4, 24>>]>>, <<>>, None)

\* A star-system config declaring the curiosities 'curs'.
SystemJson(curs) == Json(None, None, None, <<>>, <<>>, <<>>, curs, Some(<<[id |-> "E1", x |-> 1, y |-> 2]>>))

\* Ship logs.  DocA: astro object AO1, entry E1 with rumor fact F1.
DocA == Xml(Elem("AstroObjectEntry", "", <<1, 1, 9, 1>>, <<Leaf("ID", "AO1", 2, 5), Elem("Entry", "", <<3, 5, 8, 5>>, <<Leaf("ID", "E1", 4, 9), Leaf("Name", "One", 5, 9), Elem("RumorFact", "", <<6, 9, 7, 9>>, <<Leaf("ID", "F1", 6, 13)>>)>>)>>))

\* DocB: astro object AO2, entry E2 of curiosity CUR with an explore fact F2 whose source is E1.
DocB == Xml(Elem("AstroObjectEntry", "", <<1, 1, 9, 1>>, <<Leaf("ID", "AO2", 2, 5), Elem("Entry", "", <<3, 5, 8, 5>>, <<Leaf("ID", "E2", 4, 9), Leaf("Curiosity", "CUR", 5, 9), Elem("ExploreFact", "", <<6, 9, 7, 9>>, <<Leaf("ID", "F2", 6, 13), Leaf("SourceID", "E1", 7, 13)>>)>>)>>))

\* DocDup: astro object AO1, two entries both called E3.
DocDup == Xml(Elem("AstroObjectEntry", "", <<1, 1, 9, 1>>, <<Leaf("ID", "AO1", 2, 5), Elem("Entry", "", <<3, 5, 5, 5>>, <<Leaf("ID", "E3", 4, 9)>>), Elem("Entry", "", <<6, 5, 8, 5>>, <<Leaf("ID", "E3", 7, 9)>>)>>))

\* DocNested: astro object AO3, entry N1 holding entry N2 holding entry N3,
\* every ID before the nested Entry.
DocNested == Xml(Elem("AstroObjectEntry", "", <<1, 1, 19, 1>>, <<Leaf("ID", "AO3", 2, 5), Elem("Entry", "", <<3, 5, 18, 5>>, <<Leaf("ID", "N1", 4, 9), Elem("Entry", "", <<5, 9, 17, 9>>, <<Leaf("ID", "N2", 6, 13), Elem("Entry", "", <<7, 13, 16, 13>>, <<Leaf("ID", "N3", 8, 17)>>)>>)>>)>>))

\* DocLate: the astro object's ID after its Entry N1, and N1's ID after the
\* Entry N2 that N1 holds.
DocLate == Xml(Elem("AstroObjectEntry", "", <<1, 1, 19, 1>>, <<Elem("Entry", "", <<2, 5, 17, 5>>, <<Elem("Entry", "", <<3, 9, 15, 9>>, <<Leaf("ID", "N2", 4, 13)>>), Leaf("ID", "N1", 16, 9)>>), Leaf("ID", "AO3", 18, 5)>>))

----------------------------------------------------------------------------
(* The file system. *)

\* fs::read_to_string fails: the file is absent, or is there and unreadable.
NoFile == [kind |-> "ENOENT"]

Unreadable == [kind |-> "EACCES"]

ReadOk(text) == text.kind \notin {"ENOENT", "EACCES"}

\* glob("planets/**/*.json") and glob("systems/**/*.json") yield paths in
\* alphabetical order.
PlanetPaths == <<"P1.json", "P2.json", "P3.json">>

SystemPaths == <<"S1.json", "S2.json">>

Paths == {"P1.json", "P2.json", "P3.json", "S1.json", "S2.json", "X1.xml", "X2.xml", "D1.xml", "t1.xml", "U0.xml", "nope.png"}

----------------------------------------------------------------------------
(* project.rs: the Project store. *)

ProjectFile_new(url, version, contents) == [id |-> [uri |-> url, version |-> version], contents |-> contents]

\* Project::default()
Project_default == [planet_files |-> <<>>, system_files |-> <<>>, ship_log_files |-> <<>>, dialogue_files |-> <<>>, text_files |-> <<>>, files_with_diagnostics |-> <<>>]

\* Url::from_file_path fails on a path that is not absolute; every path here
\* is the absolute project root joined with a relative path.
UrlOk(path) == path \in Paths

\* Reads one file from disk and tracks it with version 0; a failure is logged
\* and the file is not tracked.
read_project_file(files, path) == IF UrlOk(path) /\ ReadOk(disk[path]) THEN Append(files, ProjectFile_new(path, 0, disk[path])) ELSE files

RECURSIVE read_project_files(_, _)
read_project_files(files, paths) == IF paths = <<>> THEN files ELSE read_project_files(read_project_file(files, Head(paths)), Tail(paths))

\* The paths the glob yields: those of the folder that exist.
crawl_folder(files, folder) == read_project_files(files, SeqFilter(folder, {p \in Paths : disk[p] # NoFile}))

\* serde_json::from_str::<Value>
JsonOk(text) == text.kind = "json"

\* The /ShipLog/xmlFile of every parseable planet config, one read per config.
find_ship_logs(p) == [p EXCEPT !.ship_log_files = read_project_files(@, Flatten([i \in DOMAIN p.planet_files |-> IF JsonOk(p.planet_files[i].contents) THEN p.planet_files[i].contents.xmlFile ELSE <<>>]))]

find_dialogue(p) == [p EXCEPT !.dialogue_files = read_project_files(@, Flatten([i \in DOMAIN p.planet_files |-> IF JsonOk(p.planet_files[i].contents) THEN p.planet_files[i].contents.dialogue ELSE <<>>]))]

\* First every translatorText of every planet, then every remote.
find_text(p) == [p EXCEPT !.text_files = read_project_files(read_project_files(@, Flatten([i \in DOMAIN p.planet_files |-> IF JsonOk(p.planet_files[i].contents) THEN p.planet_files[i].contents.translatorText ELSE <<>>])), Flatten([i \in DOMAIN p.planet_files |-> IF JsonOk(p.planet_files[i].contents) THEN p.planet_files[i].contents.remotes ELSE <<>>]))]

find_planets(p) == [p EXCEPT !.planet_files = crawl_folder(@, PlanetPaths)]

find_systems(p) == [p EXCEPT !.system_files = crawl_folder(@, SystemPaths)]

load_from(p) == find_text(find_dialogue(find_ship_logs(find_systems(find_planets(p)))))

\* The first file of the list with this uri and a smaller version, if any.
FirstAddable(files, id) == {i \in DOMAIN files : /\ id.uri = files[i].id.uri /\ id.version > files[i].id.version /\ \A j \in 1..(i - 1) : ~(id.uri = files[j].id.uri /\ id.version > files[j].id.version)}

\* check_file_add without the early return: every file with the uri and a smaller version is updated.
check_file_add_all(files, id, contents) == [files |-> [i \in DOMAIN files |-> IF id.uri = files[i].id.uri /\ id.version > files[i].id.version THEN [id |-> id, contents |-> contents] ELSE files[i]], hit |-> \E i \in DOMAIN files : id.uri = files[i].id.uri /\ id.version > files[i].id.version]

\* check_file_add without the comparison of versions: the first file with the uri is updated.
check_file_add_any_version(files, id, contents) == LET I == {i \in DOMAIN files : id.uri = files[i].id.uri} IN IF I = {} THEN [files |-> files, hit |-> FALSE] ELSE [files |-> [files EXCEPT ![CHOOSE i \in I : \A j \in I : i <= j] = [id |-> id, contents |-> contents]], hit |-> TRUE]

\* Returns the list and whether a file was updated.
check_file_add(files, id, contents) == IF FirstAddable(files, id) = {} THEN [files |-> files, hit |-> FALSE] ELSE LET i == CHOOSE k \in FirstAddable(files, id) : TRUE IN [files |-> [files EXCEPT ![i] = [id |-> id, contents |-> contents]], hit |-> TRUE]

\* The first file of the list with this uri, if any.
FirstWithUri(files, url) == {i \in DOMAIN files : url = files[i].id.uri /\ \A j \in 1..(i - 1) : url # files[j].id.uri}

\* check_file_remove without the reset of the version.
check_file_remove_keeps_version(files, url) == LET I == {i \in DOMAIN files : url = files[i].id.uri} IN IF I = {} THEN [files |-> files, hit |-> FALSE] ELSE [files |-> [files EXCEPT ![CHOOSE i \in I : \A j \in I : i <= j] = [@ EXCEPT !.contents = IF ReadOk(disk[url]) THEN disk[url] ELSE @]], hit |-> TRUE]

\* check_file_remove with unwrap_or_default in place of the kept text: a failed read leaves the empty text.
check_file_remove_or_default(files, url) == LET I == {i \in DOMAIN files : url = files[i].id.uri} IN IF I = {} THEN [files |-> files, hit |-> FALSE] ELSE [files |-> [files EXCEPT ![CHOOSE i \in I : \A j \in I : i <= j] = [id |-> [uri |-> url, version |-> 0], contents |-> IF ReadOk(disk[url]) THEN disk[url] ELSE Garbage]], hit |-> TRUE]

\* check_file_remove that takes the file out of the list.
check_file_remove_dropping(files, url) == IF FirstWithUri(files, url) = {} THEN [files |-> files, hit |-> FALSE] ELSE LET i == CHOOSE k \in FirstWithUri(files, url) : TRUE IN [files |-> SubSeq(files, 1, i - 1) \o SubSeq(files, i + 1, Len(files)), hit |-> TRUE]

\* Version 0 again; the text is re-read from disk, and kept when that fails.
check_file_remove(files, url) == IF FirstWithUri(files, url) = {} THEN [files |-> files, hit |-> FALSE] ELSE LET i == CHOOSE k \in FirstWithUri(files, url) : TRUE IN [files |-> [files EXCEPT ![i] = [id |-> [uri |-> @.id.uri, version |-> 0], contents |-> IF ReadOk(disk[url]) THEN disk[url] ELSE @.contents]], hit |-> TRUE]

\* The order in which open_file and close_file search the five lists.
SearchOrder == <<"dialogue_files", "ship_log_files", "system_files", "planet_files", "text_files">>

RECURSIVE open_in(_, _, _, _)
open_in(p, id, contents, cats) == IF cats = <<>> THEN p ELSE LET r == check_file_add(p[Head(cats)], id, contents) IN IF r.hit THEN [p EXCEPT ![Head(cats)] = r.files] ELSE open_in(p, id, contents, Tail(cats))

open_file(p, id, contents) == open_in(p, id, contents, SearchOrder)

RECURSIVE close_in(_, _, _)
close_in(p, url, cats) == IF cats = <<>> THEN p ELSE LET r == check_file_remove(p[Head(cats)], url) IN IF r.hit THEN [p EXCEPT ![Head(cats)] = r.files] ELSE close_in(p, url, Tail(cats))

close_file(p, url) == close_in(p, url, SearchOrder)

\* iter_all with a chain that leaves the text files out.
iter_all_four(p) == p.planet_files \o p.system_files \o p.ship_log_files \o p.dialogue_files

iter_all(p) == p.planet_files \o p.system_files \o p.ship_log_files \o p.dialogue_files \o p.text_files

\* The file name of a path without a trailing ".json" or ".jsonc".
FileStem(path) == CASE path = "S1.json" -> "S1" [] path = "S2.json" -> "S2" [] path = "P1.json" -> "P1" [] path = "P2.json" -> "P2" [] path = "P3.json" -> "P3" [] OTHER -> path

find_all_systems(p) == [i \in DOMAIN p.system_files |-> FileStem(p.system_files[i].id.uri)]

----------------------------------------------------------------------------
(* The Baseline Dataset: base_game_entry_ids.rs, base_game_fact_ids.rs and *)
(* base_game.json, which ship_log.rs includes.  One reserved entry with    *)
(* one reserved fact stands for the catalogue.                             *)

VANILLA_ENTRY_IDS == {"TH_VILLAGE"}

VANILLA_FACT_IDS == {"TH_VILLAGE_X1"}

VanillaEntries == <<[id |-> "TH_VILLAGE", astro_object |-> "TIMBER_HEARTH", position |-> None, name |-> "Village", parent |-> None, is_curiosity |-> FALSE, sources |-> <<>>, curiosity |-> None]>>

----------------------------------------------------------------------------
(* utils.rs *)

\* roxmltree's TextPos is 1-based, an LSP Position 0-based.
\* The conversion with only the start position moved to 0-based.
xml_range_to_diag_range_start(at) == <<at[1] - 1, at[2] - 1, at[3], at[4]>>

xml_range_to_diag_range(at) == <<at[1] - 1, at[2] - 1, at[3] - 1, at[4] - 1>>

----------------------------------------------------------------------------
(* ship_log.rs: building the ShipLogContext. *)

ID_new(node, log_file) == [value |-> node.text, source_file |-> log_file, range |-> xml_range_to_diag_range(node.at)]

ShipLogEntry_default == [id |-> "", astro_object |-> "", position |-> None, name |-> "", parent |-> None, is_curiosity |-> FALSE, sources |-> <<>>, curiosity |-> None]

ShipLogContext_default == [astro_object_ids |-> <<>>, entry_ids |-> <<>>, entries |-> EmptyMap, position_map |-> EmptyMap, fact_ids |-> <<>>, system_to_relative_path |-> EmptyMap, relative_to_astro_object |-> EmptyMap, curiosity_references |-> <<>>, source_id_references |-> <<>>]

\* node.children().find(|n| n.tag_name().name() == tag)
FindChild(node, tag) == LET I == {i \in DOMAIN node.kids : node.kids[i].tag = tag} IN IF I = {} THEN None ELSE Some(node.kids[CHOOSE i \in I : \A j \in I : i <= j])

\* The arm of a RumorFact or ExploreFact child: s is the context and the entry being built.
parse_fact(s, log_file, node) == LET idn == FindChild(node, "ID") src == FindChild(node, "SourceID") c1 == IF idn = None THEN s.ctx ELSE [s.ctx EXCEPT !.fact_ids = Append(@, ID_new(idn[1], log_file))] IN IF src = None THEN [ctx |-> c1, entry |-> s.entry] ELSE [ctx |-> [c1 EXCEPT !.source_id_references = Append(@, ID_new(src[1], log_file))], entry |-> [s.entry EXCEPT !.sources = Append(@, src[1].text)]]

RECURSIVE parse_entry(_, _, _, _, _)
RECURSIVE parse_entry_children(_, _, _, _)

\* One iteration of parse_entry's loop over the element children.
parse_entry_child(s, log_file, ao_id, node) == CASE node.tag = "ID" -> [ctx |-> [s.ctx EXCEPT !.entry_ids = Append(@, ID_new(node, log_file))], entry |-> [s.entry EXCEPT !.id = node.text]] [] node.tag = "Name" -> [s EXCEPT !.entry.name = node.text] [] node.tag = "IsCuriosity" -> [s EXCEPT !.entry.is_curiosity = TRUE] [] node.tag = "Curiosity" -> [ctx |-> [s.ctx EXCEPT !.curiosity_references = Append(@, ID_new(node, log_file))], entry |-> [s.entry EXCEPT !.curiosity = Some(node.text)]] [] node.tag \in {"RumorFact", "ExploreFact"} -> parse_fact(s, log_file, node) [] node.tag = "Entry" -> [s EXCEPT !.ctx = parse_entry(s.ctx, log_file, ao_id, node, Some(s.entry.id))] [] OTHER -> s

parse_entry_children(s, log_file, ao_id, kids) == IF kids = <<>> THEN s ELSE parse_entry_children(parse_entry_child(s, log_file, ao_id, Head(kids)), log_file, ao_id, Tail(kids))

\* The entry is stored once all its children are walked, and only with a non-empty id.
parse_entry(c, log_file, ao_id, node, parent) == LET s == parse_entry_children([ctx |-> c, entry |-> [ShipLogEntry_default EXCEPT !.astro_object = ao_id, !.parent = parent]], log_file, ao_id, node.kids) e == s.entry IN IF e.id # "" THEN [s.ctx EXCEPT !.entries = MapInsert(@, e.id, [e EXCEPT !.position = IF e.id \in DOMAIN s.ctx.position_map THEN Some(s.ctx.position_map[e.id]) ELSE None, !.name = IF e.name = "" THEN "UNNAMED" ELSE e.name])] ELSE s.ctx

\* tree.descendants(): the node and everything below it, in document order.
RECURSIVE Descendants(_)
Descendants(node) == <<node>> \o Flatten([i \in DOMAIN node.kids |-> Descendants(node.kids[i])])

\* Document::parse
XmlOk(text) == text.kind = "xml"

\* ProjectFile::get_relative: the tracked path below the project root.
get_relative(project_file) == Some(project_file.id.uri)

\* One iteration of parse's loop over the children of the AstroObjectEntry:
\* s is the context and the astro object id read so far.
parse_child(s, log_file, project_file, node) == CASE node.tag = "ID" -> [id |-> node.text, ctx |-> [s.ctx EXCEPT !.astro_object_ids = Append(@, ID_new(node, log_file)), !.relative_to_astro_object = IF get_relative(project_file) = None THEN @ ELSE MapInsert(@, get_relative(project_file)[1], node.text)]] [] node.tag = "Entry" -> [s EXCEPT !.ctx = parse_entry(s.ctx, log_file, s.id, node, None)] [] OTHER -> s

RECURSIVE parse_children(_, _, _, _)
parse_children(s, log_file, project_file, kids) == IF kids = <<>> THEN s ELSE parse_children(parse_child(s, log_file, project_file, Head(kids)), log_file, project_file, Tail(kids))

\* Returns the context and whether the document parsed.
\* parse leaving an empty context behind when the text is no XML.
parse_resetting(c, log_file, project_file, raw_str) == IF ~XmlOk(raw_str) THEN [ctx |-> ShipLogContext_default, ok |-> FALSE] ELSE LET found == SelectSeq(Descendants(raw_str.root), LAMBDA n : n.tag = "AstroObjectEntry") IN IF found = <<>> THEN [ctx |-> c, ok |-> TRUE] ELSE [ctx |-> parse_children([id |-> "", ctx |-> c], log_file, project_file, found[1].kids).ctx, ok |-> TRUE]

parse(c, log_file, project_file, raw_str) == IF ~XmlOk(raw_str) THEN [ctx |-> c, ok |-> FALSE] ELSE LET found == SelectSeq(Descendants(raw_str.root), LAMBDA n : n.tag = "AstroObjectEntry") IN IF found = <<>> THEN [ctx |-> c, ok |-> TRUE] ELSE [ctx |-> parse_children([id |-> "", ctx |-> c], log_file, project_file, found[1].kids).ctx, ok |-> TRUE]

\* serde_json::from_str::<StarSystem>
StarSystemOk(text) == JsonOk(text)

RECURSIVE insert_positions(_, _)
insert_positions(m, positions) == IF positions = <<>> THEN m ELSE insert_positions(MapInsert(m, Head(positions).id, <<Head(positions).x, Head(positions).y>>), Tail(positions))

parse_system_positions(c, config) == IF StarSystemOk(config.contents) /\ config.contents.entryPositions # None THEN [c EXCEPT !.position_map = insert_positions(@, config.contents.entryPositions[1])] ELSE c

\* serde_json::from_str::<Planet>: 'name' is required, 'starSystem' has a default.
PlanetOk(text) == JsonOk(text) /\ text.name # None

DEFAULT_SOLAR_SYSTEM == "SolarSystem"

StarSystemOf(text) == IF text.starSystem = None THEN DEFAULT_SOLAR_SYSTEM ELSE text.starSystem[1]

parse_planet(c, config) == IF PlanetOk(config.contents) /\ config.contents.xmlFile # None THEN LET sys == StarSystemOf(config.contents) IN [c EXCEPT !.system_to_relative_path = MapInsert(@, sys, Append(IF sys \in DOMAIN @ THEN @[sys] ELSE <<>>, config.contents.xmlFile[1]))] ELSE c

RECURSIVE parse_all_systems(_, _)
parse_all_systems(c, files) == IF files = <<>> THEN c ELSE parse_all_systems(parse_system_positions(c, Head(files)), Tail(files))

RECURSIVE parse_all_planets(_, _)
parse_all_planets(c, files) == IF files = <<>> THEN c ELSE parse_all_planets(parse_planet(c, Head(files)), Tail(files))

RECURSIVE parse_all_ship_logs(_, _)
parse_all_ship_logs(c, files) == IF files = <<>> THEN c ELSE parse_all_ship_logs(parse(c, Head(files).id, Head(files), Head(files).contents).ctx, Tail(files))

\* An extend that leaves the value of a key already in the map.
RECURSIVE extend_entries_keeping(_, _)
extend_entries_keeping(m, entries) == IF entries = <<>> THEN m ELSE extend_entries_keeping(IF Head(entries).id \in DOMAIN m THEN m ELSE MapInsert(m, Head(entries).id, Head(entries)), Tail(entries))

\* An extend that clears the map first.
RECURSIVE extend_entries_replacing(_, _)
extend_entries_replacing(m, entries) == IF entries = <<>> THEN EmptyMap ELSE MapInsert(extend_entries_replacing(m, SubSeq(entries, 1, Len(entries) - 1)), entries[Len(entries)].id, entries[Len(entries)])

\* HashMap::extend: a key already in the map gets the new value.
RECURSIVE extend_entries(_, _)
extend_entries(m, entries) == IF entries = <<>> THEN m ELSE extend_entries(MapInsert(m, Head(entries).id, Head(entries)), Tail(entries))

\* The context a fresh ShipLogContext 'c' becomes on this project: the
\* three loops of from_project, then the merge of the catalogue.
parse_project(c, p) == parse_all_ship_logs(parse_all_planets(parse_all_systems(c, p.system_files), p.planet_files), p.ship_log_files)

build_context(c, p) == [parse_project(c, p) EXCEPT !.entries = extend_entries(@, VanillaEntries)]

\* from_project filling the context of the run before instead of a new one.
from_project_reusing(p) == build_context(ctx, p)

from_project(p) == build_context(ShipLogContext_default, p)

----------------------------------------------------------------------------
(* sort_unstable_by_key: equal keys may come out in any order. *)

\* The orders of the elements at positions I of ks, a sequence of
\* [k |-> rank, v |-> element], that ascend in k.
RECURSIVE SortedOrders(_, _)
SortedOrders(ks, I) == IF I = {} THEN {<<>>} ELSE LET m == CHOOSE a \in {ks[i].k : i \in I} : \A i \in I : a <= ks[i].k G == {i \in I : ks[i].k = m} IN {a \o b : a \in Orders(ks, G), b \in SortedOrders(ks, I \ G)}

Unkey(ks) == [i \in DOMAIN ks |-> ks[i].v]

\* set.sort_unstable_by_key(|a| a.value.to_string())
SortByValue(set) == {Unkey(o) : o \in SortedOrders([i \in DOMAIN set |-> [k |-> Rank(set[i].value), v |-> set[i]]], DOMAIN set)}

----------------------------------------------------------------------------
(* ship_log.rs: the checks.  An error is a pair <<file id, Diagnostic>>; a  *)
(* message is the sequence of the pieces format! joins, the back-quote of  *)
(* the code written as a single quote.                                     *)

ERROR_SOURCE == "New Horizons"

Diagnostic(range, code, message) == [range |-> range, severity |-> "ERROR", code |-> code, source |-> ERROR_SOURCE, message |-> message]

DuplicateMessage(id_name, value) == <<"Duplicate ", id_name, " ID: '", value, "'">>

\* process_duplicate_buffer reporting every occurrence but the first.
process_duplicate_buffer_rest(errors, id_name, buffer) == errors \o [i \in DOMAIN Tail(buffer) |-> <<Tail(buffer)[i].source_file, Diagnostic(Tail(buffer)[i].range, "nh.shiplog.duplicate_ids", DuplicateMessage(id_name, Tail(buffer)[i].value))>>]

process_duplicate_buffer(errors, id_name, buffer) == errors \o [i \in DOMAIN buffer |-> <<buffer[i].source_file, Diagnostic(buffer[i].range, "nh.shiplog.duplicate_ids", DuplicateMessage(id_name, buffer[i].value))>>]

\* The loop over the sorted ids, then the flush of the last buffer.
RECURSIVE duplicates_loop(_, _, _, _)
duplicates_loop(errors, id_name, ids, current_buffer) == IF ids = <<>> THEN (IF Len(current_buffer) > 1 THEN process_duplicate_buffer(errors, id_name, current_buffer) ELSE errors) ELSE IF current_buffer # <<>> /\ Head(ids).value = current_buffer[Len(current_buffer)].value THEN duplicates_loop(errors, id_name, Tail(ids), Append(current_buffer, Head(ids))) ELSE duplicates_loop(IF Len(current_buffer) > 1 THEN process_duplicate_buffer(errors, id_name, current_buffer) ELSE errors, id_name, Tail(ids), <<Head(ids)>>)

\* Every list of errors the check may leave, one per order the sort may produce.
validate_id_set_duplicates(errors, id_name, set) == {duplicates_loop(errors, id_name, sorted, <<>>) : sorted \in SortByValue(set)}

TakenMessage(id_name, value) == <<id_name, " ID '", value, "' is taken by the base-game">>

\* validate_id_taken that reports a reserved value once, at its first record.
RECURSIVE validate_id_taken_once(_, _, _, _)
validate_id_taken_once(errors, id_name, set, vanilla) == IF set = <<>> THEN errors ELSE validate_id_taken_once(IF Head(set).value \in vanilla THEN Append(errors, <<Head(set).source_file, Diagnostic(Head(set).range, "nh.shiplog.vanilla_id", TakenMessage(id_name, Head(set).value))>>) ELSE errors, id_name, SeqFilter(Tail(set), {id \in Range(set) : id.value # Head(set).value \/ id.value \notin vanilla}), vanilla)

RECURSIVE validate_id_taken(_, _, _, _)
validate_id_taken(errors, id_name, set, vanilla) == IF set = <<>> THEN errors ELSE validate_id_taken(IF Head(set).value \in vanilla THEN Append(errors, <<Head(set).source_file, Diagnostic(Head(set).range, "nh.shiplog.vanilla_id", TakenMessage(id_name, Head(set).value))>>) ELSE errors, id_name, Tail(set), vanilla)

KNOWN_CURIOSITIES == {"None", "QuantumMoon", "SunkenModule", "Vessel", "TimeLoop", "CometCore", "InvisiblePlanet"}

\* The curiosities[].id of every system config that parses as JSON.
custom_curiosities(system_files) == UNION {IF JsonOk(system_files[i].contents) THEN Range(system_files[i].contents.curiosities) ELSE {} : i \in DOMAIN system_files}

CuriosityMessage(value) == <<"Unknown Curiosity: '", value, "'. Please define it in a system config">>

RECURSIVE curiosity_loop(_, _, _)
curiosity_loop(errors, refs, allowed) == IF refs = <<>> THEN errors ELSE curiosity_loop(IF Head(refs).value \notin allowed THEN Append(errors, <<Head(refs).source_file, Diagnostic(Head(refs).range, "nh.shiplog.missing_curiosity", CuriosityMessage(Head(refs).value))>>) ELSE errors, Tail(refs), allowed)

validate_curiosity_references(c, system_files, errors) == curiosity_loop(errors, c.curiosity_references, KNOWN_CURIOSITIES \cup custom_curiosities(system_files))

SourceMessage(value) == <<"Unknown Entry: '", value, "'">>

RECURSIVE source_loop(_, _, _)
source_loop(errors, refs, known) == IF refs = <<>> THEN errors ELSE source_loop(IF Head(refs).value \notin known THEN Append(errors, <<Head(refs).source_file, Diagnostic(Head(refs).range, "nh.shiplog.invalid_source_id", SourceMessage(Head(refs).value))>>) ELSE errors, Tail(refs), known)

\* validate_source_ids without the chained VANILLA_ENTRY_IDS.
validate_source_ids_project_only(c, errors) == source_loop(errors, c.source_id_references, {c.entry_ids[i].value : i \in DOMAIN c.entry_ids})

validate_source_ids(c, errors) == source_loop(errors, c.source_id_references, {c.entry_ids[i].value : i \in DOMAIN c.entry_ids} \cup VANILLA_ENTRY_IDS)

\* The three duplicate checks, one after the other.
validate_duplicates(c) == UNION {UNION {validate_id_set_duplicates(e2, "Fact", c.fact_ids) : e2 \in validate_id_set_duplicates(e1, "Entry", c.entry_ids)} : e1 \in validate_id_set_duplicates(<<>>, "Astro Object", c.astro_object_ids)}

\* ShipLogContext::validate: every ErrorSet it may return.
ctx_validate(c, p) == {validate_source_ids(c, validate_curiosity_references(c, p.system_files, validate_id_taken(validate_id_taken(e, "Entry", c.entry_ids, VANILLA_ENTRY_IDS), "Fact", c.fact_ids, VANILLA_FACT_IDS))) : e \in validate_duplicates(c)}

VANILLA_ASTRO_OBJECTS == {"SUN_STATION", "CAVE_TWIN", "TOWER_TWIN", "TIMBER_HEARTH", "TIMBER_MOON", "BRITTLE_HOLLOW", "VOLCANIC_MOON", "GIANTS_DEEP", "ORBITAL_PROBE_CANNON", "DARK_BRAMBLE", "WHITE_HOLE", "COMET", "QUANTUM_MOON", "INVISIBLE_PLANET"}

\* get_entries_for_system without the extend by VANILLA_ASTRO_OBJECTS.
get_entries_for_system_mapped_only(c, system) == IF system \notin DOMAIN c.system_to_relative_path THEN None ELSE LET paths == c.system_to_relative_path[system] ao_ids == {c.relative_to_astro_object[paths[i]] : i \in {j \in DOMAIN paths : paths[j] \in DOMAIN c.relative_to_astro_object}} IN Some({c.entries[k] : k \in {x \in DOMAIN c.entries : c.entries[x].astro_object \in ao_ids}})

\* None, or Some of the entries (a HashMap's values: in no order, so a set).
get_entries_for_system(c, system) == IF system \notin DOMAIN c.system_to_relative_path THEN None ELSE LET paths == c.system_to_relative_path[system] ao_ids == {c.relative_to_astro_object[paths[i]] : i \in {j \in DOMAIN paths : paths[j] \in DOMAIN c.relative_to_astro_object}} \cup VANILLA_ASTRO_OBJECTS IN Some({c.entries[k] : k \in {x \in DOMAIN c.entries : c.entries[x].astro_object \in ao_ids}})

----------------------------------------------------------------------------
(* The two validators of MainValidator::new, in their order. *)

\* should_invalidate without the chained system files.
ShipLog_should_invalidate_ship_logs_only(changed_paths, p) == \E file \in Range(p.ship_log_files) : file.id.uri \in changed_paths

ShipLog_should_invalidate(changed_paths, p) == \E file \in Range(p.ship_log_files \o p.system_files) : file.id.uri \in changed_paths

\* Every ErrorSet ShipLogValidator::validate may return.
\* A validate that takes declared curiosities from the planet configs too.
ShipLog_validate_reading_planets(p) == ctx_validate(from_project(p), [p EXCEPT !.system_files = @ \o p.planet_files])

ShipLog_validate(p) == ctx_validate(from_project(p), p)

FilePath_should_invalidate(changed_paths, p) == TRUE

\* json_position_parser::parse_json
JsonPosOk(text) == JsonOk(text)

FilePathMessage(file_path) == <<"File path ", file_path, " not found">>

\* The errors of one config: a schema file path that is neither a file nor a directory.
file_path_errors(config) == IF JsonPosOk(config.contents) THEN LET fps == config.contents.filePaths bad == SelectSeq(fps, LAMBDA f : disk[f.path] = NoFile) IN [i \in DOMAIN bad |-> <<config.id, Diagnostic(bad[i].range, "nh.config.file_path_invalid", FilePathMessage(bad[i].path))>>] ELSE <<>>

FilePath_validate(p) == {Flatten([i \in DOMAIN p.planet_files |-> file_path_errors(p.planet_files[i])])}

----------------------------------------------------------------------------
(* validation.rs: MainValidator. *)

\* MainValidator::new: the validators, in the order they run.
Validators == <<"ShipLogValidator", "FilePathValidator">>

should_invalidate(v, changed_paths, p) == IF v = "ShipLogValidator" THEN ShipLog_should_invalidate(changed_paths, p) ELSE FilePath_should_invalidate(changed_paths, p)

validate(v, p) == IF v = "ShipLogValidator" THEN ShipLog_validate(p) ELSE FilePath_validate(p)

\* Every concatenation of one result of each of the validators vs, in order.
RECURSIVE collect_errors(_, _)
collect_errors(vs, p) == IF vs = <<>> THEN {<<>>} ELSE {a \o b : a \in validate(Head(vs), p), b \in collect_errors(Tail(vs), p)}

\* The sum of f over the finite set S.
RECURSIVE SumOver(_, _)
SumOver(f, S) == IF S = {} THEN 0 ELSE LET x == CHOOSE y \in S : TRUE IN f[x] + SumOver(f, S \ {x})

\* The PublishDiagnostics notifications internal_emit may send for a
\* buffer, a bag of errors of one uri: uri and version are those of the
\* buffer's last error, the diagnostics are those of all its errors.
internal_emit(current_buffer) == {[uri |-> last[1].uri, diagnostics |-> [d \in {e[2] : e \in DOMAIN current_buffer} |-> SumOver(current_buffer, {e \in DOMAIN current_buffer : e[2] = d})], version |-> Some(last[1].version)] : last \in DOMAIN current_buffer}

\* One choice of each set of a sequence of sets.
RECURSIVE Choices(_)
Choices(sets) == IF sets = <<>> THEN {<<>>} ELSE {<<h>> \o t : h \in Head(sets), t \in Choices(Tail(sets))}

\* The buffers emit_diagnostics flushes for the errors of the uris U, by
\* ascending uri: errors.sort_unstable_by_key(|e| e.0.uri.clone()) makes the
\* errors of one uri adjacent and leaves their order open.
RECURSIVE buffers_of(_, _)
buffers_of(errors, U) == IF U = {} THEN <<>> ELSE LET u == CHOOSE a \in U : \A b \in U : Rank(a) <= Rank(b) G == {e \in DOMAIN errors : e[1].uri = u} IN <<[e \in G |-> errors[e]]>> \o buffers_of(errors, U \ {u})

\* emit_diagnostics without the flush after the loop: the buffer of the last uri is never sent.
emit_diagnostics_no_flush(errors) == LET buffers == buffers_of(errors, {e[1].uri : e \in DOMAIN errors}) IN Choices([i \in 1..(Len(buffers) - 1) |-> internal_emit(buffers[i])])

\* Every sequence of notifications emit_diagnostics may send for a bag of
\* errors: one per uri; the order inside a notification's list, which the
\* sort leaves open, is not modelled, the list is a bag.
emit_diagnostics(errors) == LET buffers == buffers_of(errors, {e[1].uri : e \in DOMAIN errors}) IN Choices([i \in DOMAIN buffers |-> internal_emit(buffers[i])])

\* Vec::dedup: of consecutive equal elements the first is kept.
RECURSIVE dedup(_)
dedup(s) == IF Len(s) < 2 THEN s ELSE IF s[1] = s[2] THEN dedup(Tail(s)) ELSE <<s[1]>> \o dedup(Tail(s))

\* The dirty set force_validate records for these errors.
recorded_files(errors) == dedup([i \in DOMAIN errors |-> errors[i][1]])

\* force_validate once the errors are collected: the dirty set is recorded, then the errors are emitted.
force_validate_with(p, errors) == {[project |-> [p EXCEPT !.files_with_diagnostics = recorded_files(errors)], errors |-> BagOf(errors), sent |-> sent, ran |-> Validators] : sent \in emit_diagnostics(BagOf(errors))}

\* Every outcome of force_validate: the project, the errors, the notifications, the validators run.
force_validate(p) == UNION {force_validate_with(p, errors) : errors \in collect_errors(Validators, p)}

\* The version of the first entry of the dirty set with this uri.
recorded_version(p, uri) == LET I == {i \in DOMAIN p.files_with_diagnostics : p.files_with_diagnostics[i].uri = uri} IN IF I = {} THEN None ELSE Some(p.files_with_diagnostics[CHOOSE i \in I : \A j \in I : i <= j].version)

\* on_change clearing only the files of the dirty set.
files_to_clear_recorded(p, uris_with_diagnostics) == SelectSeq(iter_all(p), LAMBDA file : file.id.uri \notin uris_with_diagnostics /\ \E i \in DOMAIN p.files_with_diagnostics : p.files_with_diagnostics[i].uri = file.id.uri)

\* The files on_change clears: every tracked file without an error in this run.
files_to_clear(p, uris_with_diagnostics) == SelectSeq(iter_all(p), LAMBDA file : file.id.uri \notin uris_with_diagnostics)

\* The empty notifications of on_change, in iter_all order.
clearing(p, uris_with_diagnostics) == LET files == files_to_clear(p, uris_with_diagnostics) IN [i \in DOMAIN files |-> [uri |-> files[i].id.uri, diagnostics |-> EmptyBag, version |-> recorded_version(p, files[i].id.uri)]]

\* files_with_diagnostics.retain(..)
retained(p, changed_paths, uris_with_diagnostics) == SelectSeq(p.files_with_diagnostics, LAMBDA f : f.uri \notin changed_paths \/ f.uri \in uris_with_diagnostics)

\* The validators on_change runs.
invalidated(changed_paths, p) == SelectSeq(Validators, LAMBDA v : should_invalidate(v, changed_paths, p))

\* Vec<Url> of the uris of a bag of errors; it is only searched.
uris_of(errors) == {e[1].uri : e \in DOMAIN errors}

\* on_change once the errors are collected: they are emitted, the clean
\* files are cleared, the dirty set is pruned.  on_change reads the errors'
\* uris and sorts them for emission, so `errors` is their bag.
on_change_with(changed_paths, p, errors) == {[project |-> [p EXCEPT !.files_with_diagnostics = retained(p, changed_paths, uris_of(errors))], errors |-> errors, sent |-> sent \o clearing(p, uris_of(errors)), ran |-> invalidated(changed_paths, p)] : sent \in emit_diagnostics(errors)}

\* Every outcome of on_change.
on_change(changed_paths, p) == UNION {on_change_with(changed_paths, p, errors) : errors \in {BagOf(e) : e \in collect_errors(invalidated(changed_paths, p), p)}}

----------------------------------------------------------------------------
(* The world outside the server: the project on disk when the server       *)
(* starts, and what the editor may send.                                   *)

\* P1.json: a planet of the default system with ship log X1.xml, a dialogue and a translator text.
P1Json == [PlanetJson(None, Some("X1.xml"), "X1.xml") EXCEPT !.dialogue = <<"D1.xml">>, !.translatorText = <<"t1.xml">>]

\* P1.json with a schema file path that does not exist and a member
\* curiosities, which the planet schema does not have.
P1JsonMissing == [P1Json EXCEPT !.filePaths = <<[path |-> "nope.png", range |-> <<4, 16, 4, 24>>]>>, !.curiosities = <<"CUR">>]

\* A planet of system Sys2 with its own ship log X2.xml.
P2JsonOwn == PlanetJson(Some("Sys2"), Some("X2.xml"), "X2.xml")

\* A planet of system Sys2 whose ship log is X1.xml.
PlanetJsonShared == PlanetJson(Some("Sys2"), Some("X1.xml"), "X1.xml")

DialogueXml == Xml(Elem("DialogueTree", "", <<1, 1, 3, 1>>, <<>>))

TextXml == Xml(Elem("NomaiObject", "", <<1, 1, 3, 1>>, <<>>))

\* A project where every ship log belongs to one planet: P1.json with
\* X1.xml, a dialogue and a translator text, P2.json with X2.xml, a planet
\* config P3.json that is no JSON, the system S1.json and an unreadable S2.json.
DiskOwn == [path \in Paths |-> CASE path = "P1.json" -> P1Json [] path = "P2.json" -> P2JsonOwn [] path = "P3.json" -> Garbage [] path = "S1.json" -> SystemJson(<<>>) [] path = "S2.json" -> Unreadable [] path = "X1.xml" -> DocA [] path = "X2.xml" -> DocB [] path = "D1.xml" -> DialogueXml [] path = "t1.xml" -> TextXml [] path = "U0.xml" -> DocB [] OTHER -> NoFile]

\* A project where the planets P2.json and P3.json share the ship log X1.xml.
DiskShared == [path \in Paths |-> CASE path \in {"P2.json", "P3.json"} -> PlanetJsonShared [] path = "X1.xml" -> DocA [] path = "X2.xml" -> DocB [] path = "U0.xml" -> DocB [] OTHER -> NoFile]

\* A project of one planet whose ship log X1.xml has two entries called E3 on disk.
DiskDirty == [path \in Paths |-> CASE path = "P2.json" -> PlanetJsonShared [] path = "X1.xml" -> DocDup [] path = "U0.xml" -> DocB [] OTHER -> NoFile]

\* The project trees the server is started on.
InitialDisks == {DiskOwn, DiskShared, DiskDirty}

\* The texts the editor may hold for a document.
EditorTexts(uri) == CASE uri = "X1.xml" -> {DocDup} [] uri = "S1.json" -> {SystemJson(<<"CUR">>)} [] uri = "P1.json" -> {P1JsonMissing} [] OTHER -> {DocA}

\* The documents the editor opens, changes and closes; U0.xml is in no config.
EditorUris == {"X1.xml", "S1.json", "P1.json", "U0.xml"}

\* The versions the editor sends.
EditorVersions == 1..MaxVersion

\* The files that may be deleted while the server runs.
Deletable == {"S1.json"}

\* The star systems a getEntriesForSystem request may name.
RequestedSystems == {"SolarSystem", "Sys2", "Sys3", "UnknownSystem"}

NoText == [kind |-> "none"]

Message(kind, uri, version, text) == [kind |-> kind, uri |-> uri, version |-> version, text |-> text]

----------------------------------------------------------------------------
(* main.rs: main_loop.  The editor's view `shown` is what the last         *)
(* notification for each uri carried.                                      *)

\* The view after the notifications `sent`, the later one winning.
RECURSIVE show(_, _)
show(view, sent) == IF sent = <<>> THEN view ELSE show(MapInsert(view, Head(sent).uri, [version |-> Head(sent).version, diagnostics |-> Head(sent).diagnostics]), Tail(sent))

Init ==
    /\ disk \in InitialDisks
    /\ project = Project_default
    /\ pc = "init"
    /\ ev = Message("none", "", 0, NoText)
    /\ ran = <<>>
    /\ errs = EmptyBag
    /\ out = <<>>
    /\ shown = EmptyMap
    /\ resp = None
    /\ ctx = ShipLogContext_default
    /\ prev = <<>>

\* project.load_from(&path)
Discover ==
    /\ pc = "init"
    /\ project' = load_from(project)
    /\ pc' = "loaded"
    /\ UNCHANGED <<disk, ev, ran, errs, out, shown, resp, ctx, prev>>

\* validator.force_validate(&connection, &mut project)
ForceValidate ==
    /\ pc = "loaded"
    /\ \E o \in force_validate(project) :
        /\ project' = o.project
        /\ errs' = o.errors
        /\ out' = o.sent
        /\ ran' = o.ran
        /\ shown' = show(shown, o.sent)
    /\ pc' = "loop"
    /\ ev' = Message("forceValidate", "", 0, NoText)
    /\ UNCHANGED <<disk, resp, ctx, prev>>

\* The rest of a notification's handler: on_change on the project p.
\* on_change called before the store is changed: the validators read the
\* store as the event found it.
Revalidate_before(p, uri) ==
    \E o \in on_change({uri}, project) :
        /\ project' = [p EXCEPT !.files_with_diagnostics = o.project.files_with_diagnostics]
        /\ errs' = o.errors
        /\ out' = o.sent
        /\ ran' = o.ran
        /\ shown' = show(shown, o.sent)

Revalidate(p, uri) ==
    \E o \in on_change({uri}, p) :
        /\ project' = o.project
        /\ errs' = o.errors
        /\ out' = o.sent
        /\ ran' = o.ran
        /\ shown' = show(shown, o.sent)

\* textDocument/didOpen
DidOpen(uri, version, text) ==
    /\ pc = "loop"
    /\ Revalidate(open_file(project, [uri |-> uri, version |-> version], text), uri)
    /\ ev' = Message("didOpen", uri, version, text)
    /\ resp' = None
    /\ UNCHANGED <<disk, pc, ctx, prev>>

\* textDocument/didChange: the text is that of the first content change.
DidChange(uri, version, text) ==
    /\ pc = "loop"
    /\ Revalidate(open_file(project, [uri |-> uri, version |-> version], text), uri)
    /\ ev' = Message("didChange", uri, version, text)
    /\ resp' = None
    /\ UNCHANGED <<disk, pc, ctx, prev>>

\* textDocument/didClose
DidClose(uri) ==
    /\ pc = "loop"
    /\ Revalidate(close_file(project, uri), uri)
    /\ ev' = Message("didClose", uri, 0, NoText)
    /\ resp' = None
    /\ UNCHANGED <<disk, pc, ctx, prev>>

\* The request getSystems
GetSystems ==
    /\ pc = "loop"
    /\ resp' = Some(find_all_systems(project))
    /\ ev' = Message("getSystems", "", 0, NoText)
    /\ out' = <<>>
    /\ UNCHANGED <<disk, project, pc, ran, errs, shown, ctx, prev>>

\* A getEntriesForSystem that validates the project before it answers.
GetEntriesForSystem_validating(system) ==
    /\ pc = "loop"
    /\ \E o \in force_validate(project) :
        /\ project' = o.project
        /\ out' = o.sent
        /\ shown' = show(shown, o.sent)
    /\ resp' = Some(get_entries_for_system(from_project(project), system))
    /\ ev' = Message("getEntriesForSystem", system, 0, NoText)
    /\ UNCHANGED <<disk, pc, ran, errs, ctx, prev>>

\* The request getEntriesForSystem with a string as first parameter
GetEntriesForSystem(system) ==
    /\ pc = "loop"
    /\ resp' = Some(get_entries_for_system(from_project(project), system))
    /\ ev' = Message("getEntriesForSystem", system, 0, NoText)
    /\ out' = <<>>
    /\ UNCHANGED <<disk, project, pc, ran, errs, shown, ctx, prev>>

\* Somebody deletes a file of the project tree that is open in the editor.
DiskRemove(path) ==
    /\ pc = "loop"
    /\ disk[path] # NoFile
    /\ \E file \in Range(iter_all(project)) : file.id.uri = path /\ file.id.version > 0
    /\ disk' = [disk EXCEPT ![path] = NoFile]
    /\ UNCHANGED <<project, pc, ev, ran, errs, out, shown, resp, ctx, prev>>

Next ==
    \/ Discover
    \/ ForceValidate
    \/ \E uri \in EditorUris, version \in EditorVersions : \E text \in EditorTexts(uri) : DidOpen(uri, version, text)
    \/ \E uri \in EditorUris, version \in EditorVersions : \E text \in EditorTexts(uri) : DidChange(uri, version, text)
    \/ \E uri \in EditorUris : DidClose(uri)
    \/ \E path \in Deletable : DiskRemove(path)

Spec == Init /\ [][Next]_vars

----------------------------------------------------------------------------
(* Vocabulary of the properties. *)

\* The notifications after which main_loop calls on_change.
ChangeKinds == {"didOpen", "didChange", "didClose"}

\* The tracked files in the order open_file and close_file search them.
InSearchOrder(p) == Flatten([i \in DOMAIN SearchOrder |-> p[SearchOrder[i]]])

\* The five collections of the store, without the dirty set.
StoreOf(p) == [i \in DOMAIN SearchOrder |-> p[SearchOrder[i]]]

\* The uris of the dirty set.
DirtyUris(p) == {p.files_with_diagnostics[i].uri : i \in DOMAIN p.files_with_diagnostics}

\* The uris whose last published list is not empty.
ShownDirty == {u \in DOMAIN shown : shown[u].diagnostics # EmptyBag}

\* No uri twice in a list of tracked files.
NoRepeatedUri(files) == \A i, j \in DOMAIN files : files[i].id.uri = files[j].id.uri => i = j

----------------------------------------------------------------------------
(* C1 *)

\* C1: after the handler of a didOpen, didChange or didClose, every tracked
\* file whose uri has no error among the errors the run collected was sent
\* a notification with an empty diagnostic list in that run, and that empty
\* list is what the editor shows for it.
C1_IncrementalClearing == ev.kind \in ChangeKinds => \A file \in Range(iter_all(project)) : file.id.uri \notin uris_of(errs) => ((\E i \in DOMAIN out : out[i].uri = file.id.uri /\ out[i].diagnostics = EmptyBag) /\ shown[file.id.uri].diagnostics = EmptyBag)

\* A file recorded as dirty by an earlier run is cleared by a change to
\* another file that the ship-log validator re-checked.
C1_Witness == /\ ev.kind \in ChangeKinds /\ "ShipLogValidator" \in Range(ran) /\ \E f \in Range(project.files_with_diagnostics) : /\ f.uri # ev.uri /\ f.uri \notin uris_of(errs) /\ \E i \in DOMAIN out : out[i].uri = f.uri /\ out[i].diagnostics = EmptyBag

----------------------------------------------------------------------------
(* C2 *)

\* C2: every notification with a non-empty list carries the version of the
\* file identifier of each error of its uri, that is the version the file
\* had in the store when the run read it.
C2_StaleVersionSafety == \A i \in DOMAIN out : out[i].diagnostics # EmptyBag => \A e \in DOMAIN errs : e[1].uri = out[i].uri => out[i].version = Some(e[1].version)

----------------------------------------------------------------------------
(* C3 *)

\* C3: between two messages the dirty set holds exactly the files whose
\* last published diagnostic list is not empty.
C3_DirtySetInvariant == pc = "loop" => DirtyUris(project) = ShownDirty

----------------------------------------------------------------------------
(* C4 *)

\* C4: none of the five collections holds two tracked files with the same uri.
C4_StoreUniqueness == \A i \in DOMAIN SearchOrder : NoRepeatedUri(project[SearchOrder[i]])

----------------------------------------------------------------------------
(* C5 *)

\* C5: discovery tracks every file with version 0; a close leaves the first
\* file of its uri with version 0; a version falls only in the handler of a
\* didClose of that uri, and rises only in the handler of a didOpen or
\* didChange of that uri, to the version of the message.
C5_VersionInvariant == [][/\ (pc = "init" => \A file \in Range(iter_all(project')) : file.id.version = 0) /\ (pc # "init" => \A i \in DOMAIN InSearchOrder(project) : LET old == InSearchOrder(project)[i] new == InSearchOrder(project')[i] IN /\ (new.id.version > old.id.version => (ev'.kind \in {"didOpen", "didChange"} /\ ev'.uri = old.id.uri /\ ev'.version = new.id.version)) /\ (new.id.version < old.id.version => (ev'.kind = "didClose" /\ ev'.uri = old.id.uri)) /\ ((ev'.kind = "didClose" /\ disk' = disk /\ ev'.uri = old.id.uri /\ \A j \in 1..(i - 1) : InSearchOrder(project)[j].id.uri # ev'.uri) => new.id.version = 0))]_vars

\* An open or change has raised the version of a tracked file to its own.
C5_Witness == /\ ev.kind \in {"didOpen", "didChange"} /\ \E file \in Range(iter_all(project)) : file.id.uri = ev.uri /\ file.id.version = ev.version /\ file.id.version > 0 /\ file.contents = ev.text

----------------------------------------------------------------------------
(* C6 *)

\* C6: when the store holds a file with the uri of a didOpen or didChange
\* and a smaller version, the handler gives the first such file in search
\* order the version and text of the message, and leaves every other file
\* and the length of every collection as they were.
C6_OpenUpdatesFirstMatch == [][(pc = "loop" /\ disk' = disk /\ ev'.kind \in {"didOpen", "didChange"}) => LET old == InSearchOrder(project) new == InSearchOrder(project') M == {i \in DOMAIN old : old[i].id.uri = ev'.uri /\ old[i].id.version < ev'.version} IN M # {} => /\ \A c \in DOMAIN SearchOrder : Len(project'[SearchOrder[c]]) = Len(project[SearchOrder[c]]) /\ \E i \in M : /\ (\A j \in M : i <= j) /\ new[i] = [id |-> [uri |-> ev'.uri, version |-> ev'.version], contents |-> ev'.text] /\ \A j \in DOMAIN old \ {i} : new[j] = old[j]]_vars

\* Of two tracked files with the uri of the message the first has the
\* message's version and text, the second still an older version.
C6_Witness == /\ ev.kind \in {"didOpen", "didChange"} /\ \E i, j \in DOMAIN InSearchOrder(project) : /\ i < j /\ InSearchOrder(project)[i] = [id |-> [uri |-> ev.uri, version |-> ev.version], contents |-> ev.text] /\ InSearchOrder(project)[j].id.uri = ev.uri /\ InSearchOrder(project)[j].id.version < ev.version

----------------------------------------------------------------------------
(* C7 *)

\* C7: the handler of a didOpen or didChange leaves the five collections
\* as they were when no tracked file has the uri of the message, and when
\* every tracked file with that uri has a version greater than or equal to
\* the message's.
C7_OpenNoOp == [][(pc = "loop" /\ disk' = disk /\ ev'.kind \in {"didOpen", "didChange"} /\ \A file \in Range(iter_all(project)) : file.id.uri = ev'.uri => file.id.version >= ev'.version) => StoreOf(project') = StoreOf(project)]_vars

\* An open or change older than what the store holds for its uri was handled.
C7_Witness == /\ ev.kind \in {"didOpen", "didChange"} /\ (\E file \in Range(iter_all(project)) : file.id.uri = ev.uri) /\ \A file \in Range(iter_all(project)) : file.id.uri = ev.uri => (file.id.version > ev.version /\ file.contents = ev.text)

----------------------------------------------------------------------------
(* C8 *)

\* C8: the handler of a didClose leaves the first tracked file with the
\* uri of the message with version 0 and with the text on disk, or with
\* the text it had when the file cannot be read; when no tracked file has
\* that uri the five collections stay as they were.
C8_Close == [][(pc = "loop" /\ disk' = disk /\ ev'.kind = "didClose") => LET old == InSearchOrder(project) new == InSearchOrder(project') M == {i \in DOMAIN old : old[i].id.uri = ev'.uri} IN IF M = {} THEN StoreOf(project') = StoreOf(project) ELSE LET i == CHOOSE k \in M : \A j \in M : k <= j IN /\ Len(new) = Len(old) /\ new[i].id = [uri |-> ev'.uri, version |-> 0] /\ new[i].contents = (IF ReadOk(disk[ev'.uri]) THEN disk[ev'.uri] ELSE old[i].contents)]_vars

\* A document whose file is gone from disk was closed: version 0, the editor's text kept.
C8_Witness == /\ ev.kind = "didClose" /\ ~ReadOk(disk[ev.uri]) /\ \E file \in Range(iter_all(project)) : file.id = [uri |-> ev.uri, version |-> 0] /\ file.contents \in EditorTexts(ev.uri)

----------------------------------------------------------------------------
(* ShipLogValidator::validate on its own: the store is an input, the       *)
(* validator is run on it and run again.                                   *)

\* The entries a generated ship log is made of: an entry id, the id of its
\* explore fact, that fact's SourceID and the entry's Curiosity, if any.
EntryKinds == {[id |-> "E1", fact |-> "F1", source |-> Some("E3"), curiosity |-> None], [id |-> "E2", fact |-> "F2", source |-> Some("TH_VILLAGE"), curiosity |-> Some("CUR")], [id |-> "TH_VILLAGE", fact |-> "TH_VILLAGE_X1", source |-> None, curiosity |-> Some("None")]}

\* The n-th Entry element of a generated ship log, on its own rows.
GenEntry(kind, n) == Elem("Entry", "", <<10 * n, 5, 10 * n + 8, 5>>, <<Leaf("ID", kind.id, 10 * n + 1, 9)>> \o (IF kind.curiosity = None THEN <<>> ELSE <<Leaf("Curiosity", kind.curiosity[1], 10 * n + 2, 9)>>) \o <<Elem("ExploreFact", "", <<10 * n + 3, 9, 10 * n + 6, 9>>, <<Leaf("ID", kind.fact, 10 * n + 4, 13)>> \o (IF kind.source = None THEN <<>> ELSE <<Leaf("SourceID", kind.source[1], 10 * n + 5, 13)>>))>>)

\* A ship log of the astro object AO1 with these entries.
GenDoc(kinds) == Xml(Elem("AstroObjectEntry", "", <<1, 1, 99, 1>>, <<Leaf("ID", "AO1", 2, 5)>> \o [n \in DOMAIN kinds |-> GenEntry(kinds[n], n)]))

\* The sequences over S of length at most n.
RECURSIVE SeqsUpTo(_, _)
SeqsUpTo(S, n) == IF n = 0 THEN {<<>>} ELSE LET shorter == SeqsUpTo(S, n - 1) IN shorter \cup {Append(s, x) : s \in {t \in shorter : Len(t) = n - 1}, x \in S}

\* The stores the validator is run on: X1.xml generated, X2.xml one of two
\* fixed ship logs, two with nested entries, or no XML, S1.json declaring no curiosity, CUR, CUR
\* written in lower case, or CUR after another one, or no JSON.
ValidatorInputs == {[Project_default EXCEPT !.ship_log_files = <<ProjectFile_new("X1.xml", 0, GenDoc(kinds)), ProjectFile_new("X2.xml", 0, other)>>, !.system_files = <<ProjectFile_new("S1.json", 0, system)>>] : kinds \in SeqsUpTo(EntryKinds, MaxEntries), other \in {DocA, DocB, Garbage, DocNested, DocLate}, system \in {SystemJson(curs) : curs \in {<<>>, <<"CUR">>, <<"cur">>, <<"OTHER", "CUR">>}} \cup {Garbage}}

InitV ==
    /\ disk = DiskOwn
    /\ project \in ValidatorInputs
    /\ pc = "input"
    /\ ev = Message("none", "", 0, NoText)
    /\ ran = <<>>
    /\ errs = EmptyBag
    /\ out = <<>>
    /\ shown = EmptyMap
    /\ resp = None
    /\ ctx = ShipLogContext_default
    /\ prev = EmptyBag

\* ShipLogValidator::validate(&project): ctx keeps the context the run
\* built, errs the bag of the errors it returned, prev that of the run before.
RunValidate ==
    /\ ctx' = from_project(project)
    /\ errs' \in {BagOf(e) : e \in ShipLog_validate(project)}
    /\ prev' = errs
    /\ ran' = <<"ShipLogValidator">>
    /\ UNCHANGED <<disk, project, ev, out, shown, resp>>

\* The first run on a store.
Validate ==
    /\ pc = "input"
    /\ RunValidate
    /\ pc' = "validated"

\* A further run on the same store.
ValidateAgain ==
    /\ pc \in {"validated", "revalidated"}
    /\ RunValidate
    /\ pc' = "revalidated"

NextV ==
    \/ Validate
    \/ ValidateAgain

SpecV == InitV /\ [][NextV]_vars

----------------------------------------------------------------------------
(* C9 *)

\* The three namespaces of identifier records of a context, with the name
\* the duplicate check gives each.
Namespaces(c) == <<[name |-> "Astro Object", set |-> c.astro_object_ids], [name |-> "Entry", set |-> c.entry_ids], [name |-> "Fact", set |-> c.fact_ids]>>

\* The duplicate diagnostics among the errors for a value of a namespace.
DuplicatesFor(errors, name, value) == {e \in DOMAIN errors : e[2].code = "nh.shiplog.duplicate_ids" /\ e[2].message = DuplicateMessage(name, value)}

\* C9: after a run of the validator, for each of the three namespaces and
\* each value with k identifier records in it, the errors hold k duplicate
\* diagnostics for the value if k >= 2, each as often as there are records
\* of the value with its file and range, and none if k < 2.
C9_DuplicateCheck == pc # "input" => \A n \in DOMAIN Namespaces(ctx) : \A value \in Range(Strings) : LET set == Namespaces(ctx)[n].set name == Namespaces(ctx)[n].name occ == {i \in DOMAIN set : set[i].value = value} dups == DuplicatesFor(errs, name, value) IN IF Cardinality(occ) >= 2 THEN /\ SumOver(errs, dups) = Cardinality(occ) /\ \A e \in dups : errs[e] = Cardinality({i \in occ : set[i].source_file = e[1] /\ set[i].range = e[2].range}) ELSE dups = {}

\* A run found the entry id E1 twice, in two files, with a duplicate
\* diagnostic in each, and the entry id E2 once, with none.
C9_Witness == /\ pc # "input" /\ Cardinality({i \in DOMAIN ctx.entry_ids : ctx.entry_ids[i].value = "E1"}) = 2 /\ SumOver(errs, DuplicatesFor(errs, "Entry", "E1")) = 2 /\ Cardinality({e[1].uri : e \in DuplicatesFor(errs, "Entry", "E1")}) = 2 /\ Cardinality({i \in DOMAIN ctx.entry_ids : ctx.entry_ids[i].value = "E2"}) = 1 /\ DuplicatesFor(errs, "Entry", "E2") = {}

----------------------------------------------------------------------------
(* C10 *)

\* C10: a further run of the validator on the same store returns the
\* errors of the run before: the same files, ranges, codes and messages,
\* each as often.
C10_Idempotence == pc = "revalidated" => errs = prev

\* A second run on a store with errors returned them again.
C10_Witness == pc = "revalidated" /\ errs # EmptyBag /\ errs = prev /\ SumOver(errs, DOMAIN errs) >= 4

----------------------------------------------------------------------------
(* The server started on generated project trees and asked its two         *)
(* requests: discovery, the initial validation, then getSystems and        *)
(* getEntriesForSystem in any order.                                       *)

\* A planet config without the name serde requires of a Planet: a JSON
\* value with a ship log U0.xml and the star system Sys3.
NamelessPlanetJson == [PlanetJson(Some("Sys3"), Some("U0.xml"), "U0.xml") EXCEPT !.name = None]

\* A ship log of the astro object AO2 without entries.
DocBare == Xml(Elem("AstroObjectEntry", "", <<1, 1, 3, 1>>, <<Leaf("ID", "AO2", 2, 5)>>))

\* The project trees: that of DiskOwn with X1.xml generated, X2.xml one of
\* two fixed ship logs, U0.xml without entries, and P3.json no JSON or a
\* planet config without name.
StartDisks == {[DiskOwn EXCEPT !["X1.xml"] = GenDoc(kinds), !["X2.xml"] = other, !["U0.xml"] = DocBare, !["P3.json"] = p3] : kinds \in SeqsUpTo(EntryKinds, MaxEntries), other \in {DocA, DocB}, p3 \in {Garbage, NamelessPlanetJson}}

InitStart ==
    /\ disk \in StartDisks
    /\ project = Project_default
    /\ pc = "init"
    /\ ev = Message("none", "", 0, NoText)
    /\ ran = <<>>
    /\ errs = EmptyBag
    /\ out = <<>>
    /\ shown = EmptyMap
    /\ resp = None
    /\ ctx = ShipLogContext_default
    /\ prev = <<>>

NextStart ==
    \/ Discover
    \/ ForceValidate
    \/ GetSystems
    \/ \E system \in RequestedSystems : GetEntriesForSystem(system)

SpecStart == InitStart /\ [][NextStart]_vars

----------------------------------------------------------------------------
(* C11 *)

\* C11: after force_validate every validator has run, and the dirty set
\* holds the identifier of every file with an error of the run, and no
\* other, each once.
C11_ForceValidateDirtySet == pc = "loop" => /\ ran = Validators /\ Range(project.files_with_diagnostics) = {e[1] : e \in DOMAIN errs} /\ \A i, j \in DOMAIN project.files_with_diagnostics : project.files_with_diagnostics[i] = project.files_with_diagnostics[j] => i = j

----------------------------------------------------------------------------
(* C12 *)

\* C12: after the handler of a didOpen, didChange or didClose, every
\* identifier of the dirty set is that of the changed file, without an
\* error in the run, or that of a file with an error in the run.
C12_RetainedAreChangedCleanOrDirty == ev.kind \in ChangeKinds => \A f \in Range(project.files_with_diagnostics) : (f.uri = ev.uri /\ f.uri \notin uris_of(errs)) \/ f.uri \in uris_of(errs)

----------------------------------------------------------------------------
(* C13 *)

\* C13: in the handler of a didOpen, didChange or didClose the file-path
\* validator runs, and the ship-log validator runs exactly when the uri of
\* the message is that of a tracked ship-log file or system file; when it
\* does not run, the run collects no error with one of its codes.
C13_SelectiveRevalidation == ev.kind \in ChangeKinds => /\ "FilePathValidator" \in Range(ran) /\ ("ShipLogValidator" \in Range(ran) <=> \E file \in Range(project.ship_log_files) \cup Range(project.system_files) : file.id.uri = ev.uri) /\ ("ShipLogValidator" \notin Range(ran) => \A e \in DOMAIN errs : e[2].code = "nh.config.file_path_invalid")

\* A change to a tracked planet config ran the file-path validator alone.
C13_Witness == /\ ev.kind \in ChangeKinds /\ ran = <<"FilePathValidator">> /\ \E file \in Range(project.planet_files) : file.id.uri = ev.uri

----------------------------------------------------------------------------
(* C14 *)

\* The diagnostics of the errors owned by a uri, as a bag.
DiagnosticsOf(errors, uri) == [d \in {e[2] : e \in {x \in DOMAIN errors : x[1].uri = uri}} |-> SumOver(errors, {e \in DOMAIN errors : e[1].uri = uri /\ e[2] = d})]

\* C14: after a validation run, every uri with an error of the run was
\* sent exactly one notification with a non-empty list, that list holds
\* the diagnostics of the errors of that uri, each as often, and no other
\* uri was sent a non-empty list.
C14_EmissionBatching ==
    pc = "loop" =>
        /\ \A u \in uris_of(errs) :
            /\ Cardinality({i \in DOMAIN out : out[i].uri = u /\ out[i].diagnostics # EmptyBag}) = 1
            /\ (\A i \in DOMAIN out : (out[i].uri = u /\ out[i].diagnostics # EmptyBag) => out[i].diagnostics = DiagnosticsOf(errs, u))
        /\ (\A i \in DOMAIN out : out[i].diagnostics # EmptyBag => out[i].uri \in uris_of(errs))

\* A run found errors in two files, two of them in one file.
C14_Witness == /\ pc = "loop" /\ Cardinality(uris_of(errs)) >= 2 /\ \E i, j \in DOMAIN out : /\ i # j /\ out[i].diagnostics # EmptyBag /\ out[j].diagnostics # EmptyBag /\ SumOver(out[i].diagnostics, DOMAIN out[i].diagnostics) >= 2

----------------------------------------------------------------------------
(* C15 *)

\* How often an element is in a bag.
CountOf(bag, e) == IF e \in DOMAIN bag THEN bag[e] ELSE 0

\* The errors of a bag with this code.
WithCode(errors, code) == {e \in DOMAIN errors : e[2].code = code}

\* The diagnostic validate_source_ids gives for a SourceID reference.
SourceError(ref) == <<ref.source_file, Diagnostic(ref.range, "nh.shiplog.invalid_source_id", SourceMessage(ref.value))>>

\* The value is an entry id of the project or a reserved entry id.
KnownEntry(c, value) == (\E k \in DOMAIN c.entry_ids : c.entry_ids[k].value = value) \/ value \in VANILLA_ENTRY_IDS

\* C15: after a run of the validator, a SourceID reference whose value is
\* an entry id of the project or a reserved entry id has no diagnostic, any
\* other has exactly one, "Unknown Entry: 'value'" at its range in its
\* file, and the run returns no other diagnostic of that code.
C15_SourceReferenceCheck ==
    pc # "input" =>
        /\ \A i \in DOMAIN ctx.source_id_references :
            CountOf(errs, SourceError(ctx.source_id_references[i])) = (IF KnownEntry(ctx, ctx.source_id_references[i].value) THEN 0 ELSE Cardinality({j \in DOMAIN ctx.source_id_references : ctx.source_id_references[j] = ctx.source_id_references[i]}))
        /\ SumOver(errs, WithCode(errs, "nh.shiplog.invalid_source_id")) = Cardinality({i \in DOMAIN ctx.source_id_references : ~KnownEntry(ctx, ctx.source_id_references[i].value)})

\* A run met a reference to a reserved entry id that no project entry
\* has, a reference to a project entry id, and a reference to neither.
C15_Witness ==
    /\ pc # "input"
    /\ \E i, j, k \in DOMAIN ctx.source_id_references :
        /\ ctx.source_id_references[i].value \in VANILLA_ENTRY_IDS
        /\ (\A n \in DOMAIN ctx.entry_ids : ctx.entry_ids[n].value # ctx.source_id_references[i].value)
        /\ ctx.source_id_references[j].value \notin VANILLA_ENTRY_IDS
        /\ KnownEntry(ctx, ctx.source_id_references[j].value)
        /\ ~KnownEntry(ctx, ctx.source_id_references[k].value)
        /\ CountOf(errs, SourceError(ctx.source_id_references[k])) = 1
        /\ CountOf(errs, SourceError(ctx.source_id_references[i])) = 0

----------------------------------------------------------------------------
(* C16 *)

\* The diagnostic validate_curiosity_references gives for a reference.
CuriosityError(ref) == <<ref.source_file, Diagnostic(ref.range, "nh.shiplog.missing_curiosity", CuriosityMessage(ref.value))>>

\* A curiosity id without its casing, over the ids the stores use.
FoldCase(value) == IF value = "cur" THEN "CUR" ELSE value

\* The value is a built-in curiosity or a curiosities[].id of a system
\* config, casing apart.
DeclaredCuriosity(p, value) == \E known \in KNOWN_CURIOSITIES \cup custom_curiosities(p.system_files) : FoldCase(known) = FoldCase(value)

\* C16: after a run of the validator, a Curiosity reference whose value is
\* built in or declared by a system config, in whatever casing and at
\* whatever place of the list, has no diagnostic, and any other reference
\* has exactly one "Unknown Curiosity" diagnostic.
C16_CuriosityReferenceCheck ==
    pc # "input" =>
        \A i \in DOMAIN ctx.curiosity_references :
            CountOf(errs, CuriosityError(ctx.curiosity_references[i])) = (IF DeclaredCuriosity(project, ctx.curiosity_references[i].value) THEN 0 ELSE Cardinality({j \in DOMAIN ctx.curiosity_references : ctx.curiosity_references[j] = ctx.curiosity_references[i]}))

----------------------------------------------------------------------------
(* C17 *)

\* The diagnostic validate_id_taken gives for an id record.
TakenError(id_name, id) == <<id.source_file, Diagnostic(id.range, "nh.shiplog.vanilla_id", TakenMessage(id_name, id.value))>>

\* The records of an id set with a reserved value.
Reserved(set, vanilla) == {i \in DOMAIN set : set[i].value \in vanilla}

\* C17: after a run of the validator, every entry id record with a
\* reserved entry id and every fact id record with a reserved fact id has
\* one "taken by the base-game" diagnostic at its range in its file,
\* whether the value is unique in the project or not, and the run returns
\* no other diagnostic of that code.
C17_ReservedIdCheck ==
    pc # "input" =>
        /\ \A i \in DOMAIN ctx.entry_ids : CountOf(errs, TakenError("Entry", ctx.entry_ids[i])) = (IF i \in Reserved(ctx.entry_ids, VANILLA_ENTRY_IDS) THEN 1 ELSE 0)
        /\ \A i \in DOMAIN ctx.fact_ids : CountOf(errs, TakenError("Fact", ctx.fact_ids[i])) = (IF i \in Reserved(ctx.fact_ids, VANILLA_FACT_IDS) THEN 1 ELSE 0)
        /\ SumOver(errs, WithCode(errs, "nh.shiplog.vanilla_id")) = Cardinality(Reserved(ctx.entry_ids, VANILLA_ENTRY_IDS)) + Cardinality(Reserved(ctx.fact_ids, VANILLA_FACT_IDS))

\* A run on a store with a reserved entry id once, and a run on a store
\* with it twice: each record has its diagnostic, an entry id that is not
\* reserved has none.
C17_WitnessUnique ==
    /\ pc # "input"
    /\ Cardinality(Reserved(ctx.entry_ids, VANILLA_ENTRY_IDS)) = 1
    /\ \A i \in Reserved(ctx.entry_ids, VANILLA_ENTRY_IDS) : CountOf(errs, TakenError("Entry", ctx.entry_ids[i])) = 1
    /\ \E i \in DOMAIN ctx.entry_ids : i \notin Reserved(ctx.entry_ids, VANILLA_ENTRY_IDS)

C17_Witness ==
    /\ pc # "input"
    /\ Cardinality(Reserved(ctx.entry_ids, VANILLA_ENTRY_IDS)) = 2
    /\ Cardinality(Reserved(ctx.fact_ids, VANILLA_FACT_IDS)) = 2
    /\ \A i \in Reserved(ctx.entry_ids, VANILLA_ENTRY_IDS) : CountOf(errs, TakenError("Entry", ctx.entry_ids[i])) = 1
    /\ \E i \in DOMAIN ctx.entry_ids : i \notin Reserved(ctx.entry_ids, VANILLA_ENTRY_IDS) /\ CountOf(errs, TakenError("Entry", ctx.entry_ids[i])) = 0

----------------------------------------------------------------------------
(* C18, C19 *)

\* The Entry map as the project's documents alone define it.
ProjectEntries(p) == parse_project(ShipLogContext_default, p).entries

\* The ids of the catalogue's entries.
VanillaEntryKeys == {VanillaEntries[k].id : k \in DOMAIN VanillaEntries}

\* C18: after from_project, the Entry map holds the project-defined Entry
\* for every entry id a ship log of the project defines, also for an id
\* the catalogue has too.
C18_ProjectEntriesKept ==
    pc # "input" => \A id \in DOMAIN ProjectEntries(project) : id \in DOMAIN ctx.entries /\ ctx.entries[id] = ProjectEntries(project)[id]

\* C18 as the code has it: after from_project, the Entry map holds the
\* project-defined Entry for every entry id a ship log of the project
\* defines and the catalogue does not have.
C18_ProjectEntriesKeptUnlessVanilla ==
    pc # "input" => \A id \in DOMAIN ProjectEntries(project) \ VanillaEntryKeys : id \in DOMAIN ctx.entries /\ ctx.entries[id] = ProjectEntries(project)[id]

\* The project defines an entry of the catalogue and one of its own: the
\* map holds the project's own entry and, for the shared id, not the
\* project's.
C18_Witness ==
    /\ pc # "input"
    /\ \E id \in DOMAIN ProjectEntries(project) \ VanillaEntryKeys : ctx.entries[id] = ProjectEntries(project)[id]
    /\ \E id \in DOMAIN ProjectEntries(project) \cap VanillaEntryKeys : ctx.entries[id] # ProjectEntries(project)[id]

\* C19: after from_project, the Entry map holds the catalogue's entry for
\* every id of the catalogue, also when a ship log of the project defines
\* an entry of that id.
C19_VanillaEntriesKept ==
    pc # "input" => \A k \in DOMAIN VanillaEntries : VanillaEntries[k].id \in DOMAIN ctx.entries /\ ctx.entries[VanillaEntries[k].id] = VanillaEntries[k]

\* A ship log of the project defines an entry with an id of the
\* catalogue, with other fields, and the map holds the catalogue's.
C19_Witness ==
    /\ pc # "input"
    /\ \E k \in DOMAIN VanillaEntries :
        /\ VanillaEntries[k].id \in DOMAIN ProjectEntries(project)
        /\ ProjectEntries(project)[VanillaEntries[k].id] # VanillaEntries[k]
        /\ ctx.entries[VanillaEntries[k].id] = VanillaEntries[k]

----------------------------------------------------------------------------
(* C20 *)

\* The ship logs the planet configs of the store declare for a system: a
\* config counts when it reads as a Planet and has a ShipLog.xmlFile, and
\* its system is its starSystem or, without one, the default.
DeclaredPaths(p, system) == {p.planet_files[i].contents.xmlFile[1] : i \in {j \in DOMAIN p.planet_files : PlanetOk(p.planet_files[j].contents) /\ p.planet_files[j].contents.xmlFile # None /\ StarSystemOf(p.planet_files[j].contents) = system}}

\* The astro object ids of these ship logs, and the fixed ones.
AstroObjectsOf(c, paths) == {c.relative_to_astro_object[path] : path \in paths \cap DOMAIN c.relative_to_astro_object} \cup VANILLA_ASTRO_OBJECTS

C20_WitnessNone ==
    /\ ev.kind = "getEntriesForSystem"
    /\ resp = Some(None)
    /\ \E file \in Range(project.planet_files) : JsonOk(file.contents) /\ file.contents.starSystem = Some(ev.uri) /\ file.contents.xmlFile # None

----------------------------------------------------------------------------
(* C21 *)

\* The store without the documents that do not parse.
WellFormed(p) == [p EXCEPT !.planet_files = SelectSeq(@, LAMBDA file : JsonOk(file.contents)), !.system_files = SelectSeq(@, LAMBDA file : JsonOk(file.contents)), !.ship_log_files = SelectSeq(@, LAMBDA file : XmlOk(file.contents))]

\* The tracked ship logs and configs that do not parse.
Malformed(p) == {file \in Range(p.ship_log_files) : ~XmlOk(file.contents)} \cup {file \in Range(p.planet_files \o p.system_files) : ~JsonOk(file.contents)}

\* Every identifier record and reference of a context.
AllRecords(c) == Range(c.astro_object_ids \o c.entry_ids \o c.fact_ids \o c.curiosity_references \o c.source_id_references)

\* C21: a run of the validator on a store with documents that do not
\* parse completes, no identifier record or reference comes from such a
\* document, and the diagnostics are those of a run on the store without
\* these documents.
C21_ParseFailuresNeverAbort ==
    pc # "input" =>
        /\ ran = <<"ShipLogValidator">>
        /\ \A record \in AllRecords(ctx) : \A file \in Malformed(project) : record.source_file # file.id
        /\ ctx = from_project(WellFormed(project))
        /\ errs \in {BagOf(e) : e \in ShipLog_validate(WellFormed(project))}

\* A run on a store with a ship log that is no XML and a system config
\* that is no JSON, next to a ship log with diagnostics.
C21_Witness ==
    /\ pc # "input"
    /\ \E file \in Range(project.ship_log_files) : ~XmlOk(file.contents)
    /\ \E file \in Range(project.system_files) : ~JsonOk(file.contents)
    /\ \E e \in DOMAIN errs : e[2].code = "nh.shiplog.duplicate_ids"
    /\ \E e \in DOMAIN errs : e[2].code = "nh.shiplog.missing_curiosity"

----------------------------------------------------------------------------
(* C22 *)

\* The tracked planet and system configs.
Configs(p) == Range(p.planet_files \o p.system_files)

\* C22: after discovery no tracked file is one that could not be read or
\* whose Url could not be built, and no tracked config is malformed JSON.
C22_DiscoveryOmitsOffending ==
    pc = "loaded" =>
        /\ \A file \in Range(iter_all(project)) : UrlOk(file.id.uri) /\ ReadOk(disk[file.id.uri])
        /\ \A file \in Configs(project) : JsonOk(file.contents)

----------------------------------------------------------------------------
(* C23 *)

\* C23: the handler of a didOpen, didChange or didClose runs to its end in
\* one step of the loop: the validators it runs are chosen on, and read,
\* the store as the event's change left it, and the notifications it sends
\* are those of this event alone, one or more for every uri with an error
\* of this run or a tracked file, non-empty exactly for the former.
C23_RunToCompletion ==
    [][(pc = "loop" /\ disk' = disk /\ ev'.kind \in ChangeKinds) =>
        /\ ran' = invalidated({ev'.uri}, project')
        /\ errs' \in {BagOf(e) : e \in collect_errors(ran', project')}
        /\ {out'[i].uri : i \in DOMAIN out'} = uris_of(errs') \cup {file.id.uri : file \in Range(iter_all(project'))}
        /\ \A i \in DOMAIN out' : (out'[i].diagnostics # EmptyBag <=> out'[i].uri \in uris_of(errs'))]_vars

\* A didOpen or didChange whose text brought an error that the store
\* before it could not have: the error is at the version of the message.
C23_Witness ==
    /\ ev.kind \in {"didOpen", "didChange"}
    /\ \E e \in DOMAIN errs : e[1] = [uri |-> ev.uri, version |-> ev.version] /\ ev.version > 0
    /\ \E i \in DOMAIN out : out[i].uri = ev.uri /\ out[i].diagnostics # EmptyBag

----------------------------------------------------------------------------
(* C24 *)

\* The five categories of the store.
Categories == {"planet_files", "system_files", "ship_log_files", "dialogue_files", "text_files"}

\* How often a sequence has this element.
Occurrences(s, x) == Cardinality({i \in DOMAIN s : s[i] = x})

\* The uris of a list of files, in its order.
UrisIn(files) == [i \in DOMAIN files |-> files[i].id.uri]

\* The sequence yields every file of every category as often as the
\* categories hold it, and the files of one category side by side in the
\* category's own order.
YieldsEachOnce(p, yielded) ==
    /\ \A file \in Range(yielded) \cup UNION {Range(p[cat]) : cat \in Categories} : Occurrences(yielded, file) = SumOver([cat \in Categories |-> Occurrences(p[cat], file)], Categories)
    /\ \A cat \in Categories : \E k \in 0..Len(yielded) : SubSeq(yielded, k + 1, k + Len(p[cat])) = p[cat]

\* C24: iter_all yields every tracked file of the five categories once,
\* the files of a category in the order they were pushed in, and a
\* didOpen, didChange or didClose leaves the order of the uris of every
\* category as it was.
C24_AllFilesOrder ==
    [][/\ YieldsEachOnce(project', iter_all(project'))
       /\ (pc = "init" => project'.planet_files = crawl_folder(<<>>, PlanetPaths) /\ project'.system_files = crawl_folder(<<>>, SystemPaths))
       /\ (pc = "loop" => \A cat \in Categories : UrisIn(project'[cat]) = UrisIn(project[cat]))]_vars

\* After an open or change that took effect on a file of a category with
\* several files, in a store with files in four categories.
C24_Witness ==
    /\ ev.kind \in {"didOpen", "didChange"}
    /\ \E cat \in Categories : \E i \in DOMAIN project[cat] : Len(project[cat]) > 1 /\ project[cat][i].id = [uri |-> ev.uri, version |-> ev.version]
    /\ Cardinality({cat \in Categories : project[cat] # <<>>}) >= 4
    /\ Len(iter_all(project)) >= 6

----------------------------------------------------------------------------
(* C25 *)

\* The diagnostics the editor shows for a uri: those of the last
\* notification for it, none before the first.
Published(uri) == IF uri \in DOMAIN shown THEN shown[uri].diagnostics ELSE EmptyBag

\* C25: after the handler of a didOpen, didChange or didClose, the
\* diagnostics last published for every tracked file are those that all
\* validators together report for it on the store as it is.
C25_PublishedMatchesStore ==
    ev.kind \in ChangeKinds =>
        \E all \in {BagOf(e) : e \in collect_errors(Validators, project)} :
            \A file \in Range(iter_all(project)) : Published(file.id.uri) = DiagnosticsOf(all, file.id.uri)

----------------------------------------------------------------------------
(* C26 *)

\* The results the ship-log validator may return on a store, as bags.
ShipLogDiagnostics(p) == {BagOf(e) : e \in ShipLog_validate(p)}

\* C26: when the uri of a didOpen, didChange or didClose is that of no
\* tracked ship log and no tracked system config, the ship-log validator
\* reports on the store after the handler what it reports on the store
\* before it.
C26_CoarseInvalidation ==
    [][(pc = "loop" /\ disk' = disk /\ ev'.kind \in ChangeKinds /\ \A file \in Range(project'.ship_log_files \o project'.system_files) : file.id.uri # ev'.uri) =>
        ShipLogDiagnostics(project') = ShipLogDiagnostics(project)]_vars

\* A change to the text of a planet config, which the ship-log validator
\* was not run for, in a store where it has something to report.
C26_Witness ==
    /\ ev.kind \in {"didOpen", "didChange"}
    /\ "ShipLogValidator" \notin Range(ran)
    /\ \E file \in Range(project.planet_files) : file.id = [uri |-> ev.uri, version |-> ev.version] /\ file.contents = ev.text /\ file.contents # disk[ev.uri]
    /\ EmptyBag \notin ShipLogDiagnostics(project)

----------------------------------------------------------------------------
(* C27, C28 *)

\* The id an Entry element declares: the text of its ID child.
EntryIdOf(node) == IF FindChild(node, "ID") = None THEN "" ELSE FindChild(node, "ID")[1].text

\* The Entry elements at and below an Entry element, each with the id of
\* the Entry element that encloses it, if any.
RECURSIVE NestedEntries(_, _)
NestedEntries(node, parent) == {[id |-> EntryIdOf(node), parent |-> parent]} \cup UNION {NestedEntries(node.kids[i], Some(EntryIdOf(node))) : i \in {j \in DOMAIN node.kids : node.kids[j].tag = "Entry"}}

\* The Entry elements of a ship log.
EntriesOfDoc(text) == UNION {NestedEntries(text.root.kids[i], None) : i \in {j \in DOMAIN text.root.kids : text.root.kids[j].tag = "Entry"}}

\* The id is that of one Entry element of the project and of no entry of
\* the catalogue, so the Entry map holds what that element gave.
DefinedOnce(c, id) == id # "" /\ id \notin VanillaEntryKeys /\ Cardinality({k \in DOMAIN c.entry_ids : c.entry_ids[k].value = id}) = 1

\* C27: the Entry derived from an Entry element nested in another has the
\* enclosing element's id as its parent, wherever the enclosing element's
\* ID stands among its children, and the Entry derived from a top-level
\* Entry element has no parent.
C27_NestedEntryParent ==
    pc # "input" =>
        \A file \in Range(project.ship_log_files) : XmlOk(file.contents) =>
            \A e \in EntriesOfDoc(file.contents) : DefinedOnce(ctx, e.id) => ctx.entries[e.id].parent = e.parent

\* C28: every Entry derived from a ship log has the astro object id that
\* the ship log's root element declares, wherever the root's ID stands
\* among its children.
C28_EntryOwnership ==
    pc # "input" =>
        \A file \in Range(project.ship_log_files) : XmlOk(file.contents) =>
            \A e \in EntriesOfDoc(file.contents) : DefinedOnce(ctx, e.id) => ctx.entries[e.id].astro_object = EntryIdOf(file.contents.root)

----------------------------------------------------------------------------
(* C29 *)

\* The two requests of the loop.
RequestKinds == {"getSystems", "getEntriesForSystem"}

\* C29: the handler of a getSystems or getEntriesForSystem request leaves
\* the store with its dirty set as it was, sends no diagnostics and
\* answers.
C29_QueriesReadOnly ==
    [][(pc = "loop" /\ ev'.kind \in RequestKinds) => (project' = project /\ out' = <<>> /\ shown' = shown /\ resp' # None)]_vars

\* A request answered with entries on a store that has a dirty set and
\* published diagnostics.
C29_Witness ==
    /\ ev.kind = "getEntriesForSystem"
    /\ resp # None /\ resp # Some(None)
    /\ project.files_with_diagnostics # <<>>
    /\ ShownDirty # {}
    /\ out = <<>>

----------------------------------------------------------------------------
(* C30 *)

\* The string a message is: its pieces joined, as format! joins them.
RECURSIVE MessageText(_)
MessageText(message) == IF message = <<>> THEN "" ELSE Head(message) \o MessageText(Tail(message))

\* C30: every diagnostic of the duplicate check, for the value v, has the
\* message "Duplicate ID: 'v'".
C30_DuplicateMessage ==
    pc # "input" =>
        \A e \in WithCode(errs, "nh.shiplog.duplicate_ids") : \E record \in AllRecords(ctx) : MessageText(e[2].message) = "Duplicate ID: '" \o record.value \o "'"

----------------------------------------------------------------------------
(* C31 *)

\* The ID elements of an Entry element and of the Entry elements nested
\* in it, in document order.
RECURSIVE EntryIdElements(_)
EntryIdElements(node) == Flatten([i \in DOMAIN node.kids |-> IF node.kids[i].tag = "ID" THEN <<node.kids[i]>> ELSE IF node.kids[i].tag = "Entry" THEN EntryIdElements(node.kids[i]) ELSE <<>>])

\* The record of an ID element of a file: its text, the file, and its
\* 1-based rows and columns minus one.
RecordOf(elem, file) == [value |-> elem.text, source_file |-> file.id, range |-> <<elem.at[1] - 1, elem.at[2] - 1, elem.at[3] - 1, elem.at[4] - 1>>]

\* The records of a list of ID elements of a file.
RecordsOf(elems, file) == [i \in DOMAIN elems |-> RecordOf(elems[i], file)]

\* The ship logs of the store that parse, in the store's order.
ParsedLogs(p) == SelectSeq(p.ship_log_files, LAMBDA file : XmlOk(file.contents))

\* C31: the entry id records are those of the Entry ID elements of the
\* ship logs, file after file and in document order within a file, the
\* astro object id records those of the root ID elements, and the range of
\* every record is its element's position minus one on every coordinate.
C31_RegistryOrder ==
    pc # "input" =>
        /\ ctx.entry_ids = Flatten([i \in DOMAIN ParsedLogs(project) |-> RecordsOf(Flatten([k \in DOMAIN ParsedLogs(project)[i].contents.root.kids |-> IF ParsedLogs(project)[i].contents.root.kids[k].tag = "Entry" THEN EntryIdElements(ParsedLogs(project)[i].contents.root.kids[k]) ELSE <<>>]), ParsedLogs(project)[i])])
        /\ ctx.astro_object_ids = Flatten([i \in DOMAIN ParsedLogs(project) |-> RecordsOf(SelectSeq(ParsedLogs(project)[i].contents.root.kids, LAMBDA kid : kid.tag = "ID"), ParsedLogs(project)[i])])

\* A store with two generated entries and the ship log with three nested
\* entries: the records N1, N2, N3 follow each other after those of the
\* first file, N1 at row 3 and column 8.
C31_Witness ==
    /\ pc # "input"
    /\ Len(ctx.entry_ids) = 5
    /\ [i \in 3..5 |-> ctx.entry_ids[i].value] = [i \in 3..5 |-> <<"", "", "N1", "N2", "N3">>[i]]
    /\ ctx.entry_ids[3].range = <<3, 8, 3, 16>>
    /\ ctx.entry_ids[3].source_file.uri = "X2.xml"
    /\ Len(ctx.astro_object_ids) = 2

----------------------------------------------------------------------------
(* C32 *)

\* C32: a didOpen, didChange or didClose leaves the membership of the
\* store as it was: every category holds the same number of files and
\* the same uris as often as before, so no file is added, removed or
\* moved to another category.
C32_MembershipFixed ==
    [][(pc = "loop" /\ disk' = disk /\ ev'.kind \in ChangeKinds) =>
        \A cat \in Categories :
            /\ Len(project'[cat]) = Len(project[cat])
            /\ BagOf(UrisIn(project'[cat])) = BagOf(UrisIn(project[cat]))]_vars

\* A didClose of a tracked file, and before it a didOpen that changed it:
\* the file is in the store, at version 0 again.
C32_Witness ==
    /\ ev.kind = "didClose"
    /\ \E cat \in Categories : \E file \in Range(project[cat]) : file.id = [uri |-> ev.uri, version |-> 0]
    /\ \E cat \in Categories : \E file \in Range(project[cat]) : file.id.version > 0

----------------------------------------------------------------------------
(* C34 *)

\* The empty notifications among those of the last step.
ClearingPublishes == {out[i] : i \in {j \in DOMAIN out : out[j].diagnostics = EmptyBag}}

\* The versions the tracked files with this uri have in the store (one
\* version, unless discovery loaded the file more than once).
StoreVersions(p, uri) == {file.id.version : file \in {f \in Range(iter_all(p)) : f.id.uri = uri}}

\* C34: every empty notification sent by the handler of a didOpen,
\* didChange or didClose carries no version, or the version the file has
\* in the store.
C34_ClearingVersion ==
    ev.kind \in ChangeKinds =>
        \A n \in ClearingPublishes : n.version = None \/ n.version[1] \in StoreVersions(project, n.uri)

----------------------------------------------------------------------------
(* C33 *)

\* The tracked files with this uri, in every category.
CopiesOf(p, uri) == {file \in Range(iter_all(p)) : file.id.uri = uri}

\* C33: after a didOpen or didChange whose version is above the version
\* of every tracked file with its uri (as it is when the editor's
\* versions start at 1 and increase), every tracked file with that uri
\* has the text and the version of the message.
C33_OverlayConsistency ==
    [][(pc = "loop" /\ disk' = disk /\ ev'.kind \in {"didOpen", "didChange"} /\ ev'.version >= 1 /\ \A file \in CopiesOf(project, ev'.uri) : file.id.version < ev'.version) =>
        \A file \in CopiesOf(project', ev'.uri) : file.id.version = ev'.version /\ file.contents = ev'.text]_vars

====
